---- MODULE Spec2Model ----
(***************************************************************************)
(* Model of the build-time generator of rvodden/teams (generate.go): for   *)
(* each (record kind, collection name) pair, main reads data/<plural>.yaml,*)
(* unmarshals it into a slice of records, builds a text/template from the  *)
(* record type's shape, trims the records, executes the template and       *)
(* writes the text to internal/generated_data/<plural>_data.go.  Every     *)
(* failure is reported with log.Fatalf, which ends the process with        *)
(* os.Exit(1) and runs no deferred function.                               *)
(*                                                                         *)
(* Text is a sequence of tokens.  Every character of a data value is a     *)
(* token of its own, and so is every double quote of the template's fixed  *)
(* text; the other fixed text is kept in larger tokens.                    *)
(***************************************************************************)
EXTENDS Integers, Sequences, FiniteSets, TLC

VARIABLES
    jobs,            \* the calls main makes: <<[name, pluralName, type]>>
    dataFiles,       \* pluralName -> data/<pluralName>.yaml
    outFiles,        \* pluralName -> internal/generated_data/<pluralName>_data.go
    job,             \* index in jobs of the running generateCodeFile call
    pc,              \* position in generateCodeFile, or "exit"
    listOfEntities,  \* generateCodeFile's listOfEntities, sanitized in place
    tmpl,            \* the parsed template
    idx,             \* the loop variable i of generateCodeString
    entityCode,      \* generateCodeFile's entityCode
    fOpen,           \* the descriptor f is open
    exitCode,        \* -1 while running, 0 after main returns, 1 after log.Fatalf
    prior,           \* history: outFiles when main started
    loaded,          \* history: listOfEntities as yaml.Unmarshal returned it
    stages,          \* history: the pipeline stages the running call has entered
    failedAt,        \* history: the stage log.Fatalf was called in, or "none"
    opened,          \* history: os.Create returned a handle in the running call
    closeCalled      \* history: f.Close was called on that handle

vars == <<jobs, dataFiles, outFiles, job, pc, listOfEntities, tmpl, idx,
          entityCode, fOpen, exitCode, prior, loaded, stages, failedAt,
          opened, closeCalled>>

----------------------------------------------------------------------------
(* Bounds of the model. *)

\* generic single call: records per data file, elements per list
MaxRecords == 2
MaxListLen == 2
\* whole build: records per data file, elements per list
MainMaxRecords == 1
MainMaxListLen == 1
\* tokens a failed write can have written, short of all but the last
MaxShortWrite == 2

DQ == "\""

\* The field values of the data files.
Strings == { <<" ", "a", " ">>, <<"b", DQ>> }
MainStrings == { <<" ", "a">> }
IntValues == { 7 }

----------------------------------------------------------------------------
(* Record types: the shapes reflect sees. *)

Field(n, k, x) == [name |-> n, kind |-> k, exported |-> x]

Team ==
    [typeName |-> "model.Team",
     fields |-> << Field("Name", "String", TRUE),
                   Field("InternalSlackChannel", "String", TRUE),
                   Field("Members", "StringSlice", TRUE) >>]

\* Shapes the type parameter entityType may be instantiated with.
Shapes ==
    { << Field("Name", "String", TRUE), Field("Tags", "StringSlice", TRUE) >>,
      << Field("Name", "String", TRUE), Field("Age", "Int", TRUE) >>,
      << Field("Name", "String", TRUE), Field("note", "String", FALSE) >> }

EntityTypes == { [typeName |-> "model.Item", fields |-> s] : s \in Shapes }
\* model.Person is declared outside generate.go: it may have any of the shapes.
Person == { [typeName |-> "model.Person", fields |-> s] : s \in Shapes }

\* fieldType.Elem() of a slice kind
ElemType(kind) == IF kind = "StringSlice" THEN "string" ELSE "int"

----------------------------------------------------------------------------
(* strings.TrimSpace and strings.Title *)

Whitespace == { " ", "\t", "\n", "\r" }

RECURSIVE TrimLeft(_)
TrimLeft(s) ==
    IF s # <<>> /\ Head(s) \in Whitespace THEN TrimLeft(Tail(s)) ELSE s

RECURSIVE TrimRight(_)
TrimRight(s) ==
    IF s # <<>> /\ s[Len(s)] \in Whitespace
    THEN TrimRight(SubSeq(s, 1, Len(s) - 1))
    ELSE s

\* Mutant: trims the leading white space only.
TrimSpaceLeftOnly(s) == TrimLeft(s)

TrimSpace(s) == TrimRight(TrimLeft(s))

Title(s) ==
    CASE s = "people" -> "People"
      [] s = "teams" -> "Teams"
      [] s = "items" -> "Items"
      [] OTHER -> s

----------------------------------------------------------------------------
(* sanitizeEntity: trims the settable string fields and the elements of    *)
(* the settable string slices; every other field is left alone.  It errs   *)
(* only for a value that is no pointer to a struct, which no instantiation *)
(* of generateCodeString passes.                                           *)

SanitizeField(f, v) ==
    CASE f.kind = "String" ->
            IF f.exported THEN TrimSpace(v) ELSE v
      [] f.kind = "StringSlice" ->
            [j \in 1..Len(v) |-> IF f.exported THEN TrimSpace(v[j]) ELSE v[j]]
      [] OTHER -> v

sanitizeEntity(fields, entity) ==
    [k \in 1..Len(fields) |-> SanitizeField(fields[k], entity[k])]

----------------------------------------------------------------------------
(* Text and templates. *)

Range(f) == { f[x] : x \in DOMAIN f }

RECURSIVE Flatten(_)
Flatten(ss) == IF ss = <<>> THEN <<>> ELSE Head(ss) \o Flatten(Tail(ss))

Digits == << "0", "1", "2", "3", "4", "5", "6", "7", "8", "9" >>

\* How {{ . }} prints an integer: its decimal digits.
RECURSIVE FormatInt(_)
FormatInt(n) ==
    IF n < 10 THEN << Digits[n + 1] >>
    ELSE FormatInt(n \div 10) \o << Digits[(n % 10) + 1] >>

\* How an action prints the value of a pipeline: a string as its own
\* characters, with no escaping (text/template, not html/template).
PrintValue(kind, v) == IF kind = "Int" THEN FormatInt(v) ELSE v

\* The nodes of a parsed template.
TextNode(t) == [op |-> "text", text |-> t, name |-> "", body |-> <<>>]
FieldNode(n) == [op |-> "field", text |-> <<>>, name |-> n, body |-> <<>>]
DotNode == [op |-> "dot", text |-> <<>>, name |-> "", body |-> <<>>]
RangeDotNode(b) == [op |-> "rangeDot", text |-> <<>>, name |-> "", body |-> b]
RangeFieldNode(n, b) == [op |-> "rangeField", text |-> <<>>, name |-> n, body |-> b]

\* generateTemplate's switch on fieldType.Kind(): a slice of any element
\* type ranges over quoted elements, every other kind is one quoted action.
\* The {{- markers have trimmed the white space before range and end.
FieldTemplate(f) ==
    IF f.kind = "StringSlice"
    THEN << TextNode(<< f.name, ": []", ElemType(f.kind), "{" >>),
            RangeFieldNode(f.name, << TextNode(<< DQ >>), DotNode, TextNode(<< DQ, "," >>) >>),
            TextNode(<< " }" >>) >>
    ELSE << TextNode(<< f.name, ": ", DQ >>), FieldNode(f.name), TextNode(<< DQ >>) >>

\* strings.Join(fields, ", ") over the field templates
RECURSIVE JoinFields(_)
JoinFields(fields) ==
    IF fields = <<>> THEN <<>>
    ELSE IF Len(fields) = 1 THEN FieldTemplate(fields[1])
    ELSE FieldTemplate(fields[1]) \o << TextNode(<< ", " >>) >> \o JoinFields(Tail(fields))

Header(pluralName, typeName) ==
    << "package generated_data\n\nimport ", DQ, "github.com/rvodden/teams/model", DQ,
       "\n\nvar ", pluralName, " = []", typeName, "{" >>

Footer == << "\n}\n" >>

\* generateTemplate, as template.Parse reads its result.  It never fails:
\* no field kind is rejected.
generateTemplate(pluralName, type) ==
    << TextNode(Header(pluralName, type.typeName)),
       RangeDotNode(<< TextNode(<< "\n    {" >>) >> \o JoinFields(type.fields)
                    \o << TextNode(<< "}," >>) >>),
       TextNode(Footer) >>

FieldIndex(fields, n) == CHOOSE k \in 1..Len(fields) : fields[k].name = n

Ok(t) == [err |-> FALSE, out |-> t]
Err == [err |-> TRUE, out |-> <<>>]

\* Template.Execute: the nodes in order; range runs its body once per
\* element, in index order, with dot set to the element; evaluating an
\* unexported field is an execution error, met only when a body runs.
RECURSIVE ExecNodes(_, _, _), ExecRange(_, _, _)
ExecNode(n, dot, fields) ==
    CASE n.op = "text" -> Ok(n.text)
      [] n.op = "dot" -> Ok(dot)
      [] n.op = "field" ->
            LET k == FieldIndex(fields, n.name) IN
            IF fields[k].exported THEN Ok(PrintValue(fields[k].kind, dot[k])) ELSE Err
      [] n.op = "rangeField" ->
            LET k == FieldIndex(fields, n.name) IN
            IF fields[k].exported THEN ExecRange(n.body, dot[k], fields) ELSE Err
      [] n.op = "rangeDot" -> ExecRange(n.body, dot, fields)

ExecNodes(nodes, dot, fields) ==
    IF nodes = <<>> THEN Ok(<<>>)
    ELSE LET first == ExecNode(Head(nodes), dot, fields) IN
         IF first.err THEN Err
         ELSE LET rest == ExecNodes(Tail(nodes), dot, fields) IN
              IF rest.err THEN Err ELSE Ok(first.out \o rest.out)

\* Mutant: range visits the elements from the last to the first.
RECURSIVE ExecRangeReversed(_, _, _)
ExecRangeReversed(body, items, fields) ==
    IF items = <<>> THEN Ok(<<>>)
    ELSE LET last == ExecNodes(body, items[Len(items)], fields) IN
         IF last.err THEN Err
         ELSE LET rest == ExecRangeReversed(body, SubSeq(items, 1, Len(items) - 1), fields) IN
              IF rest.err THEN Err ELSE Ok(last.out \o rest.out)

\* Mutant: range over no element is an execution error.
RECURSIVE ExecRangeRejectEmpty(_, _, _)
ExecRangeRejectEmpty(body, items, fields) ==
    IF items = <<>> THEN Err
    ELSE LET first == ExecNodes(body, Head(items), fields) IN
         IF first.err THEN Err
         ELSE IF Len(items) = 1 THEN first
         ELSE LET rest == ExecRangeRejectEmpty(body, Tail(items), fields) IN
              IF rest.err THEN Err ELSE Ok(first.out \o rest.out)

ExecRange(body, items, fields) ==
    IF items = <<>> THEN Ok(<<>>)
    ELSE LET first == ExecNodes(body, Head(items), fields) IN
         IF first.err THEN Err
         ELSE LET rest == ExecRange(body, Tail(items), fields) IN
              IF rest.err THEN Err ELSE Ok(first.out \o rest.out)

Execute(t, entities, fields) == ExecNodes(t, entities, fields)

----------------------------------------------------------------------------
(* The files of a run. *)

SeqsUpTo(S, n) == UNION { [1..k -> S] : k \in 0..n }

\* What yaml.Unmarshal can put in a field: unexported fields keep their
\* zero value.
FieldValues(f, strs, maxList) ==
    IF ~f.exported THEN { <<>> }
    ELSE CASE f.kind = "String" -> strs
           [] f.kind = "StringSlice" -> SeqsUpTo(strs, maxList)
           [] OTHER -> IntValues

RECURSIVE Entities(_, _, _)
Entities(fields, strs, maxList) ==
    IF fields = <<>> THEN { <<>> }
    ELSE { << v >> \o rest : v \in FieldValues(Head(fields), strs, maxList),
                             rest \in Entities(Tail(fields), strs, maxList) }

NoFile == [exists |-> FALSE, wellFormed |-> FALSE, records |-> <<>>]
Malformed == [exists |-> TRUE, wellFormed |-> FALSE, records |-> <<>>]

\* The states data/<plural>.yaml can be in: missing, not a sequence of
\* mappings of the record type, or a sequence of records.
DataFilesOf(type, strs, maxRecords, maxList) ==
    { NoFile, Malformed } \cup
    { [exists |-> TRUE, wellFormed |-> TRUE, records |-> rs] :
        rs \in SeqsUpTo(Entities(type.fields, strs, maxList), maxRecords) }

Absent == [exists |-> FALSE, bytes |-> <<>>]
\* A unit left by an earlier build.
OldUnit(pluralName) == [exists |-> TRUE, bytes |-> << "// earlier build of ", pluralName >>]

Running == -1

Locals ==
    /\ pc = "ReadFile"
    /\ listOfEntities = <<>>
    /\ tmpl = <<>>
    /\ idx = 0
    /\ entityCode = <<>>
    /\ fOpen = FALSE
    /\ loaded = <<>>
    /\ stages = <<>>
    /\ opened = FALSE
    /\ closeCalled = FALSE

InitCommon ==
    /\ prior = outFiles
    /\ job = 1
    /\ exitCode = Running
    /\ failedAt = "none"
    /\ Locals

\* main: generateCodeFile("person", "people", model.Person{}), then
\* generateCodeFile("team", "teams", model.Team{}).
Init ==
    /\ \E person \in Person :
         /\ jobs = << [name |-> "person", pluralName |-> "people", type |-> person],
                      [name |-> "team", pluralName |-> "teams", type |-> Team] >>
         /\ \E p \in DataFilesOf(person, MainStrings, MainMaxRecords, MainMaxListLen),
               t \in DataFilesOf(Team, MainStrings, MainMaxRecords, MainMaxListLen) :
              dataFiles = [ n \in {"people", "teams"} |-> IF n = "people" THEN p ELSE t ]
    /\ \E p \in { Absent, OldUnit("people") }, t \in { Absent, OldUnit("teams") } :
         outFiles = [ n \in {"people", "teams"} |-> IF n = "people" THEN p ELSE t ]
    /\ InitCommon

\* One call generateCodeFile("item", "items", T{}) for a record type T, over
\* the unit an earlier build left.
InitCall ==
    /\ \E type \in EntityTypes :
         /\ jobs = << [name |-> "item", pluralName |-> "items", type |-> type] >>
         /\ \E d \in DataFilesOf(type, Strings, MaxRecords, MaxListLen) :
              dataFiles = [ n \in {"items"} |-> d ]
    /\ outFiles = [ n \in {"items"} |-> OldUnit(n) ]
    /\ InitCommon

----------------------------------------------------------------------------
(* generateCodeFile, one action per step. *)

this == jobs[job]
fields == this.type.fields

\* Mutant: the failure is logged and generateCodeFile returns to main.
LogAndReturn(stage) ==
    /\ pc' = "return"
    /\ exitCode' = exitCode
    /\ failedAt' = stage

\* log.Fatalf: os.Exit(1) at once; deferred calls do not run.
Fatalf(stage) ==
    /\ pc' = "exit"
    /\ exitCode' = 1
    /\ failedAt' = stage

Enter(stage) == stages' = Append(stages, stage)

ReadFile ==
    /\ pc = "ReadFile"
    /\ Enter("Load")
    /\ IF dataFiles[this.pluralName].exists
       THEN /\ pc' = "Unmarshal"
            /\ UNCHANGED <<exitCode, failedAt>>
       ELSE Fatalf("Load")
    /\ UNCHANGED <<jobs, dataFiles, outFiles, job, listOfEntities, tmpl, idx,
                   entityCode, fOpen, prior, loaded, opened, closeCalled>>

Unmarshal ==
    /\ pc = "Unmarshal"
    /\ IF dataFiles[this.pluralName].wellFormed
       THEN /\ listOfEntities' = dataFiles[this.pluralName].records
            /\ loaded' = dataFiles[this.pluralName].records
            /\ pc' = "generateTemplate"
            /\ UNCHANGED <<exitCode, failedAt>>
       ELSE /\ Fatalf("Load")
            /\ UNCHANGED <<listOfEntities, loaded>>
    /\ UNCHANGED <<jobs, dataFiles, outFiles, job, tmpl, idx, entityCode, fOpen,
                   prior, stages, opened, closeCalled>>

\* template := generateTemplate(strings.Title(pluralName), exampleEntity),
\* then generateCodeString's template.Must(Parse) and the start of its loop.
CallGenerateTemplate ==
    /\ pc = "generateTemplate"
    /\ stages' = stages \o << "Reflect", "Synthesize" >>
    /\ tmpl' = generateTemplate(Title(this.pluralName), this.type)
    /\ idx' = 1
    /\ pc' = "sanitize"
    /\ UNCHANGED <<jobs, dataFiles, outFiles, job, listOfEntities, entityCode,
                   fOpen, exitCode, prior, loaded, failedAt, opened, closeCalled>>

\* One iteration of generateCodeString's loop: sanitizer(&entities[i]).
Sanitize ==
    /\ pc = "sanitize"
    /\ idx <= Len(listOfEntities)
    /\ stages' = IF idx = 1 THEN Append(stages, "Sanitize") ELSE stages
    /\ listOfEntities' =
          [listOfEntities EXCEPT ![idx] = sanitizeEntity(fields, listOfEntities[idx])]
    /\ idx' = idx + 1
    /\ UNCHANGED <<jobs, dataFiles, outFiles, job, pc, tmpl, entityCode, fOpen,
                   exitCode, prior, loaded, failedAt, opened, closeCalled>>

\* Mutant: the output file is created before the template is executed.
ExecuteTemplateAfterCreate ==
    /\ pc = "sanitize"
    /\ idx > Len(listOfEntities)
    /\ stages' = Append(stages, "Render")
    /\ outFiles' = [outFiles EXCEPT ![jobs[job].pluralName] = [exists |-> TRUE, bytes |-> <<>>]]
    /\ LET r == Execute(tmpl, listOfEntities, jobs[job].type.fields) IN
       IF r.err
       THEN /\ pc' = "exit"
            /\ exitCode' = 1
            /\ failedAt' = "Render"
            /\ UNCHANGED entityCode
       ELSE /\ entityCode' = r.out
            /\ pc' = "Create"
            /\ UNCHANGED <<exitCode, failedAt>>
    /\ UNCHANGED <<jobs, dataFiles, job, listOfEntities, tmpl, idx,
                   fOpen, prior, loaded, opened, closeCalled>>

\* tmpl.Execute(&sb, entities) after the loop; an error comes back to
\* generateCodeFile, which calls log.Fatalf.
ExecuteTemplate ==
    /\ pc = "sanitize"
    /\ idx > Len(listOfEntities)
    /\ Enter("Render")
    /\ LET r == Execute(tmpl, listOfEntities, fields) IN
       IF r.err
       THEN /\ Fatalf("Render")
            /\ UNCHANGED entityCode
       ELSE /\ entityCode' = r.out
            /\ pc' = "Create"
            /\ UNCHANGED <<exitCode, failedAt>>
    /\ UNCHANGED <<jobs, dataFiles, outFiles, job, listOfEntities, tmpl, idx,
                   fOpen, prior, loaded, opened, closeCalled>>

\* os.Create: creates the file or truncates the one that is there.
CreateOk ==
    /\ pc = "Create"
    /\ Enter("Persist")
    /\ outFiles' = [outFiles EXCEPT ![this.pluralName] = [exists |-> TRUE, bytes |-> <<>>]]
    /\ fOpen' = TRUE
    /\ opened' = TRUE
    /\ pc' = "WriteString"
    /\ UNCHANGED <<jobs, dataFiles, job, listOfEntities, tmpl, idx, entityCode,
                   exitCode, prior, loaded, failedAt, closeCalled>>

CreateFail ==
    /\ pc = "Create"
    /\ Enter("Persist")
    /\ Fatalf("Persist")
    /\ UNCHANGED <<jobs, dataFiles, outFiles, job, listOfEntities, tmpl, idx,
                   entityCode, fOpen, prior, loaded, opened, closeCalled>>

\* Mutant: the text stays in a buffer that nothing flushes.
WriteOkBuffered ==
    /\ pc = "WriteString"
    /\ pc' = "Close"
    /\ UNCHANGED <<jobs, dataFiles, outFiles, job, listOfEntities, tmpl, idx, entityCode,
                   fOpen, exitCode, prior, loaded, stages, failedAt, opened, closeCalled>>

WriteOk ==
    /\ pc = "WriteString"
    /\ outFiles' = [outFiles EXCEPT ![this.pluralName].bytes = entityCode]
    /\ pc' = "Close"
    /\ UNCHANGED <<jobs, dataFiles, job, listOfEntities, tmpl, idx, entityCode,
                   fOpen, exitCode, prior, loaded, stages, failedAt, opened, closeCalled>>

\* What a failed write can leave in the file: a proper prefix of the text,
\* possibly nothing.
ShortWrites(text) ==
    { SubSeq(text, 1, n) :
        n \in { m \in 0..(Len(text) - 1) : m <= MaxShortWrite \/ m = Len(text) - 1 } }

\* A failed WriteString; log.Fatalf then exits with the deferred Close not run.
WriteFail ==
    /\ pc = "WriteString"
    /\ \E written \in ShortWrites(entityCode) :
         outFiles' = [outFiles EXCEPT ![this.pluralName].bytes = written]
    /\ Fatalf("Persist")
    /\ UNCHANGED <<jobs, dataFiles, job, listOfEntities, tmpl, idx, entityCode,
                   fOpen, prior, loaded, stages, opened, closeCalled>>

\* The deferred f.Close() as generateCodeFile returns, then main's next
\* call, or main's return after the last one.
CloseOk ==
    /\ pc = "Close"
    /\ fOpen' = FALSE
    /\ closeCalled' = TRUE
    /\ pc' = "return"
    /\ UNCHANGED <<jobs, dataFiles, outFiles, job, listOfEntities, tmpl, idx,
                   entityCode, exitCode, prior, loaded, stages, failedAt, opened>>

CloseFail ==
    /\ pc = "Close"
    /\ fOpen' = FALSE
    /\ closeCalled' = TRUE
    /\ Fatalf("Persist")
    /\ UNCHANGED <<jobs, dataFiles, outFiles, job, listOfEntities, tmpl, idx,
                   entityCode, prior, loaded, stages, opened>>

Return ==
    /\ pc = "return"
    /\ IF job < Len(jobs)
       THEN /\ job' = job + 1
            /\ pc' = "ReadFile"
            /\ listOfEntities' = <<>>
            /\ tmpl' = <<>>
            /\ idx' = 0
            /\ entityCode' = <<>>
            /\ fOpen' = FALSE
            /\ loaded' = <<>>
            /\ stages' = <<>>
            /\ opened' = FALSE
            /\ closeCalled' = FALSE
            /\ UNCHANGED exitCode
       ELSE /\ pc' = "exit"
            /\ exitCode' = 0
            /\ UNCHANGED <<job, listOfEntities, tmpl, idx, entityCode, fOpen,
                           loaded, stages, opened, closeCalled>>
    /\ UNCHANGED <<jobs, dataFiles, outFiles, prior, failedAt>>

Next ==
    \/ ReadFile
    \/ Unmarshal
    \/ CallGenerateTemplate
    \/ Sanitize
    \/ ExecuteTemplate
    \/ CreateOk
    \/ CreateFail
    \/ WriteOk
    \/ WriteFail
    \/ CloseOk
    \/ CloseFail
    \/ Return

Spec == Init /\ [][Next]_vars
SpecCall == InitCall /\ [][Next]_vars

----------------------------------------------------------------------------
(* What the claims speak of. *)

plural == this.pluralName
target == outFiles[plural]

Supported(f) == f.kind \in {"String", "StringSlice"}
HasUnsupported(type) == \E k \in 1..Len(type.fields) : ~Supported(type.fields[k])

\* A record with every Scalar and every ScalarList element trimmed.
SanitizedRecord(fs, r) ==
    [k \in 1..Len(fs) |->
        CASE fs[k].kind = "String" -> TrimSpace(r[k])
          [] fs[k].kind = "StringSlice" -> [j \in 1..Len(r[k]) |-> TrimSpace(r[k][j])]
          [] OTHER -> r[k]]

NoEdgeSpace(v) == v = <<>> \/ (v[1] \notin Whitespace /\ v[Len(v)] \notin Whitespace)

IsSanitized(fs, r) ==
    \A k \in 1..Len(fs) :
        /\ fs[k].kind = "String" => NoEdgeSpace(r[k])
        /\ fs[k].kind = "StringSlice" => \A j \in 1..Len(r[k]) : NoEdgeSpace(r[k][j])

\* The literal of one field and of one record, written out directly.
FieldLiteral(f, v) ==
    IF f.kind = "StringSlice"
    THEN << f.name, ": []", "string", "{" >>
         \o Flatten([j \in 1..Len(v) |-> << DQ >> \o v[j] \o << DQ, "," >>])
         \o << " }" >>
    ELSE << f.name, ": ", DQ >> \o PrintValue(f.kind, v) \o << DQ >>

RecordLiteral(fs, r) ==
    << "\n    {" >>
    \o Flatten([k \in 1..Len(fs) |->
                  IF k = 1 THEN FieldLiteral(fs[k], r[k])
                  ELSE << ", " >> \o FieldLiteral(fs[k], r[k])])
    \o << "}," >>

\* The unit declaring the records rs, in their order.
UnitOf(j, rs) ==
    Header(Title(j.pluralName), j.type.typeName)
    \o Flatten([i \in 1..Len(rs) |-> RecordLiteral(j.type.fields, rs[i])])
    \o Footer

Count(text, tok) == Cardinality({ n \in 1..Len(text) : text[n] = tok })

Rendered == pc \in {"Create", "WriteString", "Close", "return"} \/ (pc = "exit" /\ entityCode # <<>>)
Written == pc \in {"Close", "return"} \/ (pc = "exit" /\ closeCalled)
PastLoad == pc \in {"generateTemplate", "sanitize", "Create", "WriteString", "Close", "return"}
              \/ (pc = "exit" /\ "Reflect" \in Range(stages))

\* The string literals a Go scanner finds in a text, in order: a literal
\* runs from a double quote to the next double quote that no backslash
\* escapes, and may not hold a line end.
LineEnds == { "\n", "\n    {", "\n}\n", "\n\nvar ", "package generated_data\n\nimport " }

Unescape(c) == IF c = "n" THEN "\n" ELSE IF c = "t" THEN "\t" ELSE c

RECURSIVE Scan(_, _, _, _, _)
Scan(text, pos, inside, cur, lits) ==
    IF pos > Len(text) THEN [ok |-> ~inside, lits |-> lits]
    ELSE LET tok == text[pos] IN
         IF ~inside
         THEN Scan(text, pos + 1, tok = DQ, <<>>, lits)
         ELSE IF tok = DQ THEN Scan(text, pos + 1, FALSE, <<>>, Append(lits, cur))
         ELSE IF tok \in LineEnds THEN [ok |-> FALSE, lits |-> lits]
         ELSE IF tok = "\\" /\ pos < Len(text)
              THEN Scan(text, pos + 2, TRUE, Append(cur, Unescape(text[pos + 1])), lits)
         ELSE Scan(text, pos + 1, TRUE, Append(cur, tok), lits)

StringLiterals(text) == Scan(text, 1, FALSE, <<>>, <<>>)

\* The values that are rendered as literals, in the order of the unit.
ValuesOf(fs, rs) ==
    Flatten([i \in 1..Len(rs) |->
        Flatten([k \in 1..Len(fs) |->
            IF fs[k].kind = "StringSlice" THEN rs[i][k]
            ELSE << PrintValue(fs[k].kind, rs[i][k]) >>])])

StageOrder == << "Load", "Reflect", "Synthesize", "Sanitize", "Render", "Persist" >>
ClaimedStageOrder == << "Load", "Reflect", "Sanitize", "Synthesize", "Render", "Persist" >>

Pos(order, st) == CHOOSE n \in 1..Len(order) : order[n] = st

\* the stages entered so far are distinct and in the order given
InOrder(order) ==
    \A a, b \in 1..Len(stages) : a < b => Pos(order, stages[a]) < Pos(order, stages[b])

\* no step of the running call has touched its target file
TargetUntouched == target = prior[plural]

----------------------------------------------------------------------------
(* The claims. *)

\* C1: a record kind with a field that is neither string-like nor a list of
\* string-like values makes generate fail with UnsupportedFieldKind before
\* the target file is created: no template is synthesized for it, nothing
\* is rendered, and the run does not end in success.
C1_UnsupportedKindRejected ==
    HasUnsupported(this.type) =>
        /\ pc \notin {"sanitize", "Create", "WriteString", "Close", "return"}
        /\ ~opened
        /\ pc = "exit" => (exitCode = 1 /\ failedAt \in {"Load", "Reflect"})

\* C2: when Persist fails at os.Create or at WriteString, the run ends with
\* a write error and leaves no file of its own at the target path: the path
\* is empty, or holds the earlier file that the run never opened.
C2_WriteFailureIsolation ==
    (pc = "exit" /\ failedAt = "Persist" /\ ~closeCalled) =>
        /\ exitCode = 1
        /\ target = Absent \/ (~opened /\ TargetUntouched)

\* C3: in every terminal state in which the output file was opened, Close
\* has been called on it.
C3_HandleClosedOnEveryExit ==
    (pc = "exit" /\ opened) => closeCalled

\* C4, as claimed: the stages run in the order Load, Reflect, Sanitize,
\* Synthesize, Render, Persist, and a failure before Persist leaves the
\* target file as it was.
C4_Claimed_StageOrderAndGate ==
    /\ InOrder(ClaimedStageOrder)
    /\ (pc = "exit" /\ failedAt \in {"Load", "Reflect", "Sanitize", "Synthesize", "Render"})
          => TargetUntouched

\* C4, amended: the stages run in the order Load, Reflect, Synthesize,
\* Sanitize, Render, Persist; the target file is as it was until Persist is
\* entered, so a run that fails before Persist leaves it with its exact
\* prior content (or still missing).
C4_StageOrderAndGate ==
    /\ InOrder(StageOrder)
    /\ "Persist" \notin Range(stages) => (TargetUntouched /\ ~opened)
    /\ (pc = "exit" /\ failedAt \in {"Load", "Reflect", "Synthesize", "Sanitize", "Render"})
          => (TargetUntouched /\ exitCode = 1 /\ "Persist" \notin Range(stages))

C4_Witness ==
    /\ pc = "exit"
    /\ failedAt = "Render"
    /\ "Sanitize" \in Range(stages)
    /\ prior[plural] = OldUnit(plural)
    /\ target = OldUnit(plural)

\* C5: the unit holds exactly one record literal per loaded record, the
\* i-th being the literal of the sanitized i-th record, and every list field
\* keeps the number and the order of its elements.
C5_OrderPreserved ==
    /\ Rendered =>
          /\ entityCode = UnitOf(this, [i \in 1..Len(loaded) |->
                                          SanitizedRecord(fields, loaded[i])])
          /\ Count(entityCode, "\n    {") = Len(loaded)
    /\ Written => target.bytes = entityCode
    /\ Len(listOfEntities) = Len(loaded)
    /\ \A i \in 1..Len(loaded) : \A k \in 1..Len(fields) :
          fields[k].kind = "StringSlice" =>
             /\ Len(listOfEntities[i][k]) = Len(loaded[i][k])
             /\ \A j \in 1..Len(loaded[i][k]) :
                   listOfEntities[i][k][j] \in { loaded[i][k][j], TrimSpace(loaded[i][k][j]) }

C5_Witness ==
    /\ pc = "return"
    /\ Len(loaded) = 2
    /\ loaded[1] # loaded[2]
    /\ SanitizedRecord(fields, loaded[1]) # SanitizedRecord(fields, loaded[2])
    /\ \E k \in 1..Len(fields) :
          /\ fields[k].kind = "StringSlice"
          /\ Len(loaded[1][k]) = 2
          /\ TrimSpace(loaded[1][k][1]) # TrimSpace(loaded[1][k][2])

\* C6: every rendered value is one well-formed string literal of the unit
\* whose content is the sanitized value: the string literals of the unit are
\* the import path and then the values, one literal each, in order.
C6_ValuesEscaped ==
    Rendered =>
        LET found == StringLiterals(entityCode) IN
        /\ found.ok
        /\ found.lits = << << "github.com/rvodden/teams/model" >> >>
                        \o ValuesOf(fields, listOfEntities)

\* C7: once a record has been sanitized no Scalar and no ScalarList element
\* of it has leading or trailing white space, sanitizing it again changes
\* nothing, and the unit is rendered from the sanitized records.
C7_Sanitized ==
    /\ \A i \in 1..Len(listOfEntities) :
          i < idx =>
             /\ IsSanitized(fields, listOfEntities[i])
             /\ listOfEntities[i] = SanitizedRecord(fields, loaded[i])
             /\ sanitizeEntity(fields, listOfEntities[i]) = listOfEntities[i]
    /\ Rendered =>
          /\ \A i \in 1..Len(listOfEntities) : IsSanitized(fields, listOfEntities[i])
          /\ entityCode = UnitOf(this, listOfEntities)

C7_Witness ==
    /\ pc = "return"
    /\ \E i \in 1..Len(loaded) : \E k \in 1..Len(fields) :
          /\ fields[k].kind = "String"
          /\ loaded[i][k] # listOfEntities[i][k]
    /\ \E i \in 1..Len(loaded) : \E k \in 1..Len(fields) :
          /\ fields[k].kind = "StringSlice"
          /\ \E j \in 1..Len(loaded[i][k]) : loaded[i][k][j] # listOfEntities[i][k][j]
    /\ target.bytes # UnitOf(this, loaded)

\* C8: a data source that loads with zero records is no error: Sanitize
\* and Render do not fail, and the file that is written declares the
\* collection with zero elements.
EmptySource ==
    dataFiles[plural].wellFormed /\ dataFiles[plural].records = <<>> /\ PastLoad

C8_EmptyInput ==
    EmptySource =>
        /\ failedAt \in {"none", "Persist"}
        /\ Rendered =>
              /\ entityCode = Header(Title(plural), this.type.typeName) \o Footer
              /\ Count(entityCode, "\n    {") = 0
        /\ Written => target = [exists |-> TRUE, bytes |-> entityCode]
        /\ pc = "exit" => Rendered

C8_Witness ==
    /\ EmptySource
    /\ pc = "exit"
    /\ exitCode = 0
    /\ \E k \in 1..Len(fields) : ~fields[k].exported
    /\ target.bytes = Header("Items", "model.Item") \o Footer

\* what C9 says of each state
HaltedAtFirstFailure ==
    /\ << jobs[1].name, jobs[1].pluralName >> = << "person", "people" >>
    /\ << jobs[2].name, jobs[2].pluralName >> = << "team", "teams" >>
    /\ failedAt # "none" => (pc = "exit" /\ exitCode = 1)
    /\ exitCode = 0 => (failedAt = "none" /\ job = 2)
    /\ job = 1 => outFiles["teams"] = prior["teams"]
    /\ job = 2 => outFiles["people"].exists

\* C9: the build runs person/people, then team/teams, and halts with a
\* non-zero outcome at the first failure: once a stage has failed no step
\* is ever taken again, and after a failure of the first pair the second
\* pair was never started and its target file is as it was.
C9_HaltOnFirstFailure ==
    /\ []HaltedAtFirstFailure
    /\ [][failedAt # "none" => UNCHANGED vars]_vars

C9_Witness ==
    /\ pc = "exit"
    /\ exitCode = 1
    /\ job = 1
    /\ failedAt = "Persist"
    /\ opened
    /\ dataFiles["teams"].wellFormed
    /\ outFiles["teams"] = OldUnit("teams")

\* C10: the people unit is fully written before the teams data source is
\* read, and a failure of the teams run leaves the people file with its new
\* content.
PeopleUnit ==
    [exists |-> TRUE,
     bytes |-> UnitOf(jobs[1], [i \in 1..Len(dataFiles["people"].records) |->
                 SanitizedRecord(jobs[1].type.fields, dataFiles["people"].records[i])])]

C10_PeopleWrittenBeforeTeams ==
    job = 2 =>
        /\ outFiles["people"] = PeopleUnit
        /\ dataFiles["people"].wellFormed

C10_Witness ==
    /\ job = 2
    /\ pc = "exit"
    /\ exitCode = 1
    /\ failedAt = "Load"
    /\ prior["people"] = OldUnit("people")
    /\ outFiles["people"] = PeopleUnit
    /\ outFiles["teams"] = OldUnit("teams")
    /\ Len(dataFiles["people"].records) = 1

====
